---- MODULE Spec2Model ----
(***************************************************************************)
(* A model of kappa-py: the compression-complexity pipeline.               *)
(*                                                                         *)
(*   Spec     compute_cid and compute_normalized_cid (lz_entropy.py): the  *)
(*            wrapper around the external lz_entropy tool, its temporary   *)
(*            files, and the shuffle normalisation.                        *)
(*   SpecBin  bin_particles_3d (binning.py): histogram, Hilbert curve      *)
(*            order and the digit string.                                  *)
(*                                                                         *)
(* The lz_entropy executable (cpp/lz77) is not part of the Python sources; *)
(* its factorizer follows section 4.2 of the specification and the value   *)
(* it prints as CID is any value of a grid over [0,1] (section 4.3 leaves  *)
(* the cost model open).                                                   *)
(* Real numbers are exact rationals <<num, den>>; <<0, 0>> is NaN.         *)
(***************************************************************************)
EXTENDS Integers, Sequences, FiniteSets, TLC

\* ------------------------------------------------------------- bounds
MaxLen == 4        \* longest bytes input
MaxStrLen == 1     \* longest str input (code points)
MaxArrLen == 1     \* longest ndarray input (elements)
MaxShuffles == 2   \* largest n_shuffles
CidScale == 1      \* the tool prints a CID of c / CidScale, c in 0..CidScale
MaxParticles == 10 \* most rows of the particles array
MaxNbins == 4      \* largest nbins

ByteAlphabet == {97, 98}          \* b"a", b"b"
StrAlphabet == {97, 233}          \* "a", "e-acute" (two bytes in UTF-8)

VARIABLES
    data,               \* the caller's argument: [kind, val, itemsize]
    evaluations,        \* how many times compute_cid has run the tool
    n_shuffles,         \* the caller's n_shuffles
    disk,               \* the file system: path -> [isdir, bytes]
    pc,                 \* "idle", "shuffle" (inside compute_normalized_cid), "done"
    data_bytes,         \* compute_normalized_cid's data_bytes
    cid_orig,           \* compute_normalized_cid's cid_orig
    cid_shuffled_list,  \* compute_normalized_cid's cid_shuffled_list
    shuffled,           \* compute_normalized_cid's shuffled (last permutation)
    result,             \* what the call returned or raised
    toolRun,            \* the last run of the lz_entropy tool: what it read and its factors
    particles,          \* bin_particles_3d's particles: row -> multiplicity
    nbins,              \* bin_particles_3d's nbins
    box_size,           \* bin_particles_3d's box_size
    binPc,              \* "input", "done"
    binResult           \* what bin_particles_3d returned or raised

vars == <<data, n_shuffles, disk, pc, data_bytes, cid_orig, cid_shuffled_list,
          shuffled, result, toolRun, evaluations, particles, nbins, box_size, binPc, binResult>>
cidVars == <<data, n_shuffles, disk, pc, data_bytes, cid_orig, cid_shuffled_list,
             shuffled, result, toolRun, evaluations>>
binVars == <<particles, nbins, box_size, binPc, binResult>>

\* ------------------------------------------------------------- rationals
RECURSIVE Gcd(_, _)
Gcd(a, b) == IF b = 0 THEN a ELSE Gcd(b, a % b)

Abs(a) == IF a < 0 THEN -a ELSE a

NaN == <<0, 0>>

IsNaN(x) == x[2] = 0

\* n / d as a reduced fraction with a positive denominator; x / 0 is NaN here
\* (the code never divides by zero: it tests the divisor first).
Rat(n, d) ==
    IF d = 0 THEN NaN
    ELSE LET g == Gcd(Abs(n), Abs(d))
             s == IF d < 0 THEN -1 ELSE 1
         IN  <<(s * n) \div g, (s * d) \div g>>

RatAdd(x, y) == IF IsNaN(x) \/ IsNaN(y) THEN NaN ELSE Rat(x[1] * y[2] + y[1] * x[2], x[2] * y[2])

RatSub(x, y) == IF IsNaN(x) \/ IsNaN(y) THEN NaN ELSE Rat(x[1] * y[2] - y[1] * x[2], x[2] * y[2])

RatMul(x, y) == IF IsNaN(x) \/ IsNaN(y) THEN NaN ELSE Rat(x[1] * y[1], x[2] * y[2])

RatDiv(x, y) == IF IsNaN(x) \/ IsNaN(y) THEN NaN ELSE Rat(x[1] * y[2], x[2] * y[1])

\* x > 0 as Python evaluates it: False for NaN.
Gt0(x) == ~IsNaN(x) /\ x[1] > 0

Zero == Rat(0, 1)

One == Rat(1, 1)

RECURSIVE RatSum(_)
RatSum(xs) == IF xs = <<>> THEN Zero ELSE RatAdd(xs[1], RatSum(Tail(xs)))

\* np.mean: the sum over the count; NaN for an empty list.
np_mean(xs) == IF xs = <<>> THEN NaN ELSE RatDiv(RatSum(xs), Rat(Len(xs), 1))

\* np.std squared (the population variance): mean((x - mean)^2).
np_var(xs) ==
    LET m == np_mean(xs)
    IN  np_mean([i \in 1..Len(xs) |-> RatMul(RatSub(xs[i], m), RatSub(xs[i], m))])

\* ------------------------------------------------------------- sequences
SeqsUpTo(S, n) == UNION {[1..k -> S] : k \in 0..n}

RECURSIVE Flatten(_)
Flatten(ss) == IF ss = <<>> THEN <<>> ELSE ss[1] \o Flatten(Tail(ss))

Count(b, s) == Cardinality({i \in 1..Len(s) : s[i] = b})

\* ------------------------------------------------------------- conversions
\* str.encode('utf-8') of one code point below 2048.
Utf8Char(cp) == IF cp < 128 THEN <<cp>> ELSE <<192 + (cp \div 64), 128 + (cp % 64)>>

Utf8Encode(s) == Flatten([i \in 1..Len(s) |-> Utf8Char(s[i])])

\* ndarray.tobytes(): each element little-endian in itemsize bytes.
ElemBytes(v, itemsize) == [k \in 1..itemsize |-> (v \div (256 ^ (k - 1))) % 256]

ToBytesArr(vals, itemsize) == Flatten([i \in 1..Len(vals) |-> ElemBytes(vals[i], itemsize)])

\* The bytes compute_normalized_cid works on (lz_entropy.py 116-121).
ToDataBytes(d) ==
    IF d.kind = "ndarray" THEN ToBytesArr(d.val, d.itemsize)
    ELSE IF d.kind = "str" THEN Utf8Encode(d.val)
    ELSE d.val

\* ------------------------------------------------------------- the lz_entropy tool
\* Shortest match that becomes a copy factor (section 4.2, step 2).
MinCopyLen == 2

\* Length of the common run of s starting at j and at i (j < i); the run may
\* extend past i (a self-overlapping match).
RECURSIVE MatchLen(_, _, _)
MatchLen(s, j, i) ==
    IF i > Len(s) \/ s[j] # s[i] THEN 0 ELSE 1 + MatchLen(s, j + 1, i + 1)

RECURSIVE LongestMatch(_, _, _, _)
\* The longest match for position i among the starts j..i-1, as <<start, length>>,
\* given the best of the starts before j; among equals the most recent start wins
\* (section 4.2, step 4). Positions are 1-based here; <<0, 0>> is no match.
LongestMatch(s, i, j, best) ==
    IF j >= i THEN best
    ELSE LET L == MatchLen(s, j, i)
         IN  LongestMatch(s, i, j + 1, IF L >= 1 /\ L >= best[2] THEN <<j, L>> ELSE best)

CopyOffsetShifted(i, j) == i - j + 1

\* offset = i - j
CopyOffset(i, j) == i - j

NextPosSkipping(i, L) == i + L + 1

\* advance i += L
NextPos(i, L) == i + L

\* Greedy longest-match parsing from position i (1-based); pos is the 0-based
\* position the factor was emitted at.
RECURSIVE FactorizeFrom(_, _)
FactorizeFrom(s, i) ==
    IF i > Len(s) THEN <<>>
    ELSE LET m == LongestMatch(s, i, 1, <<0, 0>>)
             j == m[1]
             L == m[2]
         IN  IF L >= MinCopyLen
             THEN <<[type |-> "copy", pos |-> i - 1, offset |-> CopyOffset(i, j),
                     length |-> L, sym |-> 0]>> \o FactorizeFrom(s, NextPos(i, L))
             ELSE <<[type |-> "literal", pos |-> i - 1, offset |-> 0,
                     length |-> 1, sym |-> s[i]]>> \o FactorizeFrom(s, NextPos(i, 1))

Factorize(s) == FactorizeFrom(s, 1)

\* The values the tool can print as CID: a grid over [0, 1].
CidValues == {Rat(c, CidScale) : c \in 0..CidScale}

\* ------------------------------------------------------------- the file system
\* Path("") is Path("."), the current directory.
Cwd == <<46>>

PathKey(s) == IF s = <<>> THEN Cwd ELSE s

\* Path(data).exists()
PathExists(s, dk) == PathKey(s) \in DOMAIN dk

\* Names of temporary files: no str input names one (code point 0 leads).
TmpName(k) == <<0, k>>

\* tempfile.NamedTemporaryFile picks a name not on disk.
FreshTmp(dk) ==
    TmpName(CHOOSE k \in 1..(Cardinality(DOMAIN dk) + 1) :
                /\ TmpName(k) \notin DOMAIN dk
                /\ \A j \in 1..(k - 1) : TmpName(j) \in DOMAIN dk)

WriteFile(dk, name, bytes) ==
    [p \in DOMAIN dk \cup {name} |->
        IF p = name THEN [isdir |-> FALSE, bytes |-> bytes] ELSE dk[p]]

\* os.unlink
Unlink(dk, name) == [p \in DOMAIN dk \ {name} |-> dk[p]]

\* Whether the tool can read the file it is given: open("") fails, and so does
\* reading a directory.
Readable(path, dk) == path # <<>> /\ path \in DOMAIN dk /\ ~dk[path].isdir

NoStats == [length |-> 0, factors |-> 0, cid |-> NaN]

\* subprocess.run([lz_entropy, '-t', filepath], check=True) and the parse of its
\* output; cid is the value the tool prints. A failing tool makes run() raise.
RunTool(filepath, dk, cid) ==
    IF ~Readable(filepath, dk)
    THEN [kind |-> "error", error |-> "FileError", stats |-> NoStats,
          read |-> FALSE, input |-> <<>>, factors |-> <<>>]
    ELSE LET s == dk[filepath].bytes
             f == Factorize(s)
         IN  IF Len(s) = 0
             THEN [kind |-> "error", error |-> "EmptyInputError", stats |-> NoStats,
                   read |-> TRUE, input |-> s, factors |-> f]
             ELSE [kind |-> "ok", error |-> "",
                   stats |-> [length |-> Len(s), factors |-> Len(f), cid |-> cid],
                   read |-> TRUE, input |-> s, factors |-> f]

None == <<>>

\* ------------------------------------------------------------- compute_cid
\* isinstance(data, (str, Path)) and Path(data).exists()
IsFilePath(d, dk) == d.kind = "str" /\ PathExists(d.val, dk)

\* What the data branch writes to its temporary file.
TmpContent(d) == IF d.kind = "str" THEN Utf8Encode(d.val) ELSE ToDataBytes(d)

\* compute_cid(data): the disk it leaves, the tool's run, and the outcome.
compute_cid(d, dk, cid) ==
    LET tmp == FreshTmp(dk)
        isPath == IsFilePath(d, dk)
        dk1 == IF isPath THEN WriteFile(dk, tmp, <<>>)
               ELSE WriteFile(dk, tmp, TmpContent(d))
        tmp_path == IF isPath THEN None ELSE tmp
        filepath == IF isPath THEN d.val ELSE tmp
        run == RunTool(filepath, dk1, cid)
        dk2 == IF tmp_path # None /\ tmp_path \in DOMAIN dk1
               THEN Unlink(dk1, tmp_path) ELSE dk1
    IN  [disk |-> dk2, run |-> run, created |-> tmp, filepath |-> filepath]

\* ------------------------------------------------------------- compute_normalized_cid
PermuteWithReplacement(s, perm) == [i \in 1..Len(s) |-> s[perm[1]]]

\* np.random.permutation(data_array): a shuffled copy.
Permute(s, perm) == [i \in 1..Len(s) |-> s[perm[i]]]

\* Every outcome of one shuffle of s.
Shuffles(s) == {Permute(s, perm) : perm \in Permutations(1..Len(s))}

NormalizeInverted(cid, mean) ==
    IF Gt0(mean)
    THEN [cid_normalized |-> RatDiv(mean, cid),
          compression_gain |-> RatSub(One, RatDiv(mean, cid))]
    ELSE [cid_normalized |-> One, compression_gain |-> Zero]

NormalizeFallbackGain(cid, mean) ==
    IF Gt0(mean)
    THEN [cid_normalized |-> RatDiv(cid, mean),
          compression_gain |-> RatSub(One, RatDiv(cid, mean))]
    ELSE [cid_normalized |-> One, compression_gain |-> One]

\* lz_entropy.py 137-143
Normalize(cid, mean) ==
    IF Gt0(mean)
    THEN [cid_normalized |-> RatDiv(cid, mean),
          compression_gain |-> RatSub(One, RatDiv(cid, mean))]
    ELSE [cid_normalized |-> One, compression_gain |-> Zero]

\* np.std(xs) as the root of the population variance; 0.0 is the root of 0.
Sqrt(x) == [sqrt_of |-> x]

NormResultStdUnguarded(cid, xs, n) ==
    LET mean == np_mean(xs)
        nz == Normalize(cid, mean)
    IN  [cid |-> cid,
         cid_shuffled |-> mean,
         cid_shuffled_std |-> Sqrt(np_var(xs)),
         cid_normalized |-> nz.cid_normalized,
         compression_gain |-> nz.compression_gain]

\* lz_entropy.py 135-151: the returned dict.
NormResult(cid, xs, n) ==
    LET mean == np_mean(xs)
        nz == Normalize(cid, mean)
    IN  [cid |-> cid,
         cid_shuffled |-> mean,
         cid_shuffled_std |-> IF n > 1 THEN Sqrt(np_var(xs)) ELSE Sqrt(Zero),
         cid_normalized |-> nz.cid_normalized,
         compression_gain |-> nz.compression_gain]

\* ------------------------------------------------------------- Spec: states
UserFile == <<97>>

UserContent == <<98, 98, 98>>

\* The current directory, and one file of the caller's, named "a".
InitDisk ==
    WriteFile([p \in {Cwd} |-> [isdir |-> TRUE, bytes |-> <<>>]], UserFile, UserContent)

Inputs ==
    [kind : {"bytes"}, val : SeqsUpTo(ByteAlphabet, MaxLen), itemsize : {1}]
    \cup [kind : {"str"}, val : SeqsUpTo(StrAlphabet, MaxStrLen), itemsize : {1}]
    \cup [kind : {"ndarray"}, val : SeqsUpTo(ByteAlphabet, MaxArrLen), itemsize : {1, 2}]

NoResult == [op |-> "none", kind |-> "none", error |-> "", value |-> None]

NoRun == [kind |-> "none", error |-> "", stats |-> NoStats, read |-> FALSE,
          input |-> <<>>, factors |-> <<>>]

InitBinIdle ==
    /\ particles = <<>>
    /\ nbins = 2
    /\ box_size = 1
    /\ binPc = "off"
    /\ binResult = None

Init ==
    /\ data \in Inputs
    /\ n_shuffles \in 0..MaxShuffles
    /\ disk = InitDisk
    /\ pc = "idle"
    /\ data_bytes = None
    /\ cid_orig = NaN
    /\ cid_shuffled_list = <<>>
    /\ shuffled = None
    /\ result = NoResult
    /\ toolRun = NoRun
    /\ evaluations = 0
    /\ InitBinIdle

Outcome(op, run, value) ==
    IF run.kind = "ok"
    THEN [op |-> op, kind |-> "ok", error |-> "", value |-> value]
    ELSE [op |-> op, kind |-> "error", error |-> run.error, value |-> None]

\* A caller's compute_cid(data, return_stats).
CallComputeCid ==
    /\ pc = "idle"
    /\ \E cid \in CidValues, return_stats \in BOOLEAN :
        LET r == compute_cid(data, disk, cid)
        IN  /\ disk' = r.disk
            /\ toolRun' = r.run
            /\ evaluations' = evaluations + 1
            /\ result' = Outcome("compute_cid", r.run,
                                 IF return_stats THEN r.run.stats
                                 ELSE [cid |-> r.run.stats.cid])
    /\ pc' = "done"
    /\ UNCHANGED <<data, n_shuffles, data_bytes, cid_orig, cid_shuffled_list, shuffled>>
    /\ UNCHANGED binVars

\* compute_normalized_cid up to its loop: the conversion and the CID of the original.
NormStart ==
    /\ pc = "idle"
    /\ \E cid \in CidValues :
        LET b == ToDataBytes(data)
            r == compute_cid([kind |-> "bytes", val |-> b, itemsize |-> 1], disk, cid)
        IN  /\ data_bytes' = b
            /\ disk' = r.disk
            /\ toolRun' = r.run
            /\ evaluations' = evaluations + 1
            /\ IF r.run.kind = "ok"
               THEN /\ cid_orig' = r.run.stats.cid
                    /\ pc' = "shuffle"
                    /\ result' = result
               ELSE /\ cid_orig' = cid_orig
                    /\ pc' = "done"
                    /\ result' = Outcome("compute_normalized_cid", r.run, None)
    /\ UNCHANGED <<data, n_shuffles, cid_shuffled_list, shuffled>>
    /\ UNCHANGED binVars

\* One pass of the loop: a permutation of data_array and its CID.
NormShuffle ==
    /\ pc = "shuffle"
    /\ Len(cid_shuffled_list) < n_shuffles
    /\ \E sh \in Shuffles(data_bytes), cid \in CidValues :
        LET r == compute_cid([kind |-> "bytes", val |-> sh, itemsize |-> 1], disk, cid)
        IN  /\ shuffled' = sh
            /\ disk' = r.disk
            /\ toolRun' = r.run
            /\ evaluations' = evaluations + 1
            /\ IF r.run.kind = "ok"
               THEN /\ cid_shuffled_list' = Append(cid_shuffled_list, r.run.stats.cid)
                    /\ pc' = "shuffle"
                    /\ result' = result
               ELSE /\ cid_shuffled_list' = cid_shuffled_list
                    /\ pc' = "done"
                    /\ result' = Outcome("compute_normalized_cid", r.run, None)
    /\ UNCHANGED <<data, n_shuffles, data_bytes, cid_orig>>
    /\ UNCHANGED binVars

\* After the loop: the mean, the normalisation and the returned dict.
NormFinish ==
    /\ pc = "shuffle"
    /\ Len(cid_shuffled_list) = n_shuffles
    /\ result' = [op |-> "compute_normalized_cid", kind |-> "ok", error |-> "",
                  value |-> NormResult(cid_orig, cid_shuffled_list, n_shuffles)]
    /\ pc' = "done"
    /\ UNCHANGED <<data, n_shuffles, disk, data_bytes, cid_orig, cid_shuffled_list,
                   shuffled, toolRun, evaluations>>
    /\ UNCHANGED binVars

Next == CallComputeCid \/ NormStart \/ NormShuffle \/ NormFinish

Spec == Init /\ [][Next]_vars

\* ------------------------------------------------------------- bit operations
RECURSIVE Xor(_, _)
Xor(a, b) ==
    IF a = 0 /\ b = 0 THEN 0
    ELSE (((a % 2) + (b % 2)) % 2) + 2 * Xor(a \div 2, b \div 2)

RECURSIVE And(_, _)
And(a, b) ==
    IF a = 0 \/ b = 0 THEN 0
    ELSE ((a % 2) * (b % 2)) + 2 * And(a \div 2, b \div 2)

RECURSIVE BitLen(_)
BitLen(n) == IF n = 0 THEN 0 ELSE 1 + BitLen(n \div 2)

Max(a, b) == IF a >= b THEN a ELSE b

\* floor(log2(n)) for n >= 1
FloorLog2(n) == BitLen(n) - 1

IsPowerOfTwo(n) == n >= 1 /\ 2 ^ FloorLog2(n) = n

\* ------------------------------------------------------------- the Hilbert curve
\* The number of dimensions: N = 3.
N == 3

\* format(num, 'b').zfill(width): the bits of num, most significant first, at
\* least width of them.
binary_repr(num, width) ==
    LET W == Max(width, Max(1, BitLen(num)))
    IN  [k \in 1..W |-> (num \div (2 ^ (W - k))) % 2]

\* s[i::n] for a 0-based start i
SliceFrom(s, i, n) ==
    [m \in 1..((Len(s) - i + n - 1) \div n) |-> s[i + 1 + (m - 1) * n]]

RECURSIVE FromBits(_)
\* int(bits, 2)
FromBits(bs) ==
    IF bs = <<>> THEN 0 ELSE 2 * FromBits(SubSeq(bs, 1, Len(bs) - 1)) + bs[Len(bs)]

hilbert_integer_to_transpose_shifted(h, p) ==
    [i \in 1..N |-> FromBits(SliceFrom(binary_repr(h, p * N), i, N))]

\* HilbertCurve._hilbert_integer_to_transpose: x[i] = int(h_bit_str[i::n], 2)
hilbert_integer_to_transpose(h, p) ==
    [i \in 1..N |-> FromBits(SliceFrom(binary_repr(h, p * N), i - 1, N))]

\* Gray decode by H ^ (H/2); x is 1-based here.
GrayDecode(x) ==
    LET t == x[N] \div 2
    IN  [i \in 1..N |-> IF i = 1 THEN Xor(x[1], t) ELSE Xor(x[i], x[i - 1])]

\* One pass of the inner loop of "undo excess work" for coordinate i.
UndoStep(x, q, i) ==
    IF And(x[i], q) # 0
    THEN [x EXCEPT ![1] = Xor(x[1], q - 1)]
    ELSE LET t == And(Xor(x[1], x[i]), q - 1)
         IN  IF i = 1 THEN x
             ELSE [x EXCEPT ![1] = Xor(x[1], t), ![i] = Xor(x[i], t)]

RECURSIVE UndoInner(_, _, _)
\* for i in range(n-1, -1, -1)
UndoInner(x, q, i) == IF i = 0 THEN x ELSE UndoInner(UndoStep(x, q, i), q, i - 1)

RECURSIVE UndoExcess(_, _, _)
\* while q != z: ...; q <<= 1
UndoExcess(x, q, z) == IF q = z THEN x ELSE UndoExcess(UndoInner(x, q, N), 2 * q, z)

\* HilbertCurve(p, 3).point_from_distance(distance), for p >= 1
point_from_distance(distance, p) ==
    UndoExcess(GrayDecode(hilbert_integer_to_transpose(distance, p)), 2, 2 ^ p)

\* ------------------------------------------------------------- bin_particles_3d
\* The rows [type, x, y, z] the particles array is made of.
Rows == {<<1, 0, 0, 0>>, <<1, 1, 2, 1>>, <<2, 0, -1, 1>>, <<2, 1, 1, 1>>}

BoxSizes == {1, 2}

\* coords = particles[:, 1:4]
Coords(row) == <<row[2], row[3], row[4]>>

Outside == -1

BinIndexHalfOpen(x, nb, box) ==
    IF x < 0 \/ x >= box THEN Outside ELSE (x * nb) \div box

\* The bin of coordinate x among nb equal bins over [0, box]: np.histogramdd
\* drops x < 0 and x > box, and counts x = box in the last bin.
BinIndex(x, nb, box) ==
    IF x < 0 \/ x > box THEN Outside
    ELSE IF x = box THEN nb - 1
    ELSE (x * nb) \div box

\* The bins of a row's coordinates, 0-based per axis; Outside on an axis where the
\* coordinate is out of range.
VoxelOf(row, nb, box) == [a \in 1..N |-> BinIndex(Coords(row)[a], nb, box)]

Grid(nb) == [1..N -> 0..(nb - 1)]

RECURSIVE BagSum(_, _)
\* The number of rows of the bag among the rows R.
BagSum(bag, R) ==
    IF R = {} THEN 0
    ELSE LET r == CHOOSE r \in R : TRUE IN bag[r] + BagSum(bag, R \ {r})

\* np.histogramdd(coords, bins=(nbins,)*3, range=((0, box_size),)*3)
histogramdd(bag, nb, box) ==
    [v \in Grid(nb) |-> BagSum(bag, {r \in DOMAIN bag : VoxelOf(r, nb, box) = v})]

\* p = int(np.log2(nbins**2) / 2)
CurveBits(nb) == FloorLog2(nb * nb) \div 2

\* indexes[i, :] = hilbert_curve.point_from_distance(i), for i in range(nbins**N).
\* The loop depends on nbins alone, so its outcome is tabulated per nbins
\* (\o <<>> and @@ <<>> make TLC hold the values instead of re-evaluating them).
CurveOrders ==
    [nb \in 2..MaxNbins |->
        [i \in 1..(nb ^ N) |-> point_from_distance(i - 1, CurveBits(nb))] \o <<>>] @@ <<>>

CurveIndexes(nb) == CurveOrders[nb]

RECURSIVE Str(_)
\* str(n) for n >= 0, as character codes
Str(n) == IF n < 10 THEN <<48 + n>> ELSE Str(n \div 10) \o <<48 + (n % 10)>>

\* Whether histo[x, y, z] is inside the array.
IndexInRange(v, nb) == \A a \in 1..N : v[a] < nb

\* What a read outside the array yields: IndexError.
Raises == -1

ReadCellWrapping(histo, v, nb) == histo[[a \in 1..N |-> v[a] % nb]]

\* int(histo[x, y, z])
ReadCell(histo, v, nb) == IF IndexInRange(v, nb) THEN histo[v] ELSE Raises

BinError(error, histo, indexes) ==
    [kind |-> "error", error |-> error, histo |-> histo, indexes |-> indexes,
     flattened |-> <<>>, binned |-> None]

\* bin_particles_3d(particles, nbins, box_size): the string, or the exception.
bin_particles_3d(bag, nb, box) ==
    LET histo == histogramdd(bag, nb, box)
        p == CurveBits(nb)
    IN  IF p <= 0 THEN BinError("ValueError", histo, <<>>)
        ELSE LET indexes == CurveIndexes(nb)
                 flattened == [i \in 1..Len(indexes) |-> ReadCell(histo, indexes[i], nb)]
             IN  IF \E i \in 1..Len(flattened) : flattened[i] = Raises
                 THEN BinError("IndexError", histo, indexes)
                 ELSE [kind |-> "ok", error |-> "", histo |-> histo,
                       indexes |-> indexes, flattened |-> flattened,
                       binned |-> Flatten([i \in 1..Len(flattened) |->
                                              Str(flattened[i])])]

\* ------------------------------------------------------------- SpecBin: states
InitCidIdle ==
    /\ data = [kind |-> "bytes", val |-> <<>>, itemsize |-> 1]
    /\ n_shuffles = 1
    /\ disk = InitDisk
    /\ pc = "off"
    /\ data_bytes = None
    /\ cid_orig = NaN
    /\ cid_shuffled_list = <<>>
    /\ shuffled = None
    /\ result = NoResult
    /\ toolRun = NoRun
    /\ evaluations = 0

InitBin ==
    /\ particles = [r \in Rows |-> 0]
    /\ nbins \in 1..MaxNbins
    /\ box_size \in BoxSizes
    /\ binPc = "input"
    /\ binResult = None
    /\ InitCidIdle

NumParticles == BagSum(particles, Rows)

\* The caller's array gets one more row (load_xyz_snapshot reads one more line).
AddParticle ==
    /\ binPc = "input"
    /\ NumParticles < MaxParticles
    /\ \E r \in Rows : particles' = [particles EXCEPT ![r] = @ + 1]
    /\ UNCHANGED <<nbins, box_size, binPc, binResult>>
    /\ UNCHANGED cidVars

\* The call bin_particles_3d(particles, nbins, box_size).
Bin ==
    /\ binPc = "input"
    /\ binResult' = bin_particles_3d(particles, nbins, box_size)
    /\ binPc' = "done"
    /\ UNCHANGED <<particles, nbins, box_size>>
    /\ UNCHANGED cidVars

NextBin == AddParticle \/ Bin

SpecBin == InitBin /\ [][NextBin]_vars

\* ------------------------------------------------------------- claims: normalisation
\* compute_normalized_cid has returned its dict.
NormReturned ==
    pc = "done" /\ result.op = "compute_normalized_cid" /\ result.kind = "ok"

\* C1: with n_shuffles >= 1, the returned cid is the CID of the original, cid_shuffled
\* is the mean of the n_shuffles shuffled CIDs, and cid_normalized is cid / mean when
\* the mean is > 0 (stated as cid_normalized * mean = cid) and exactly 1 otherwise.
C1_NormalizedIsRatioOrOne ==
    (NormReturned /\ n_shuffles >= 1) =>
        LET v == result.value
        IN  /\ v.cid = cid_orig
            /\ Len(cid_shuffled_list) = n_shuffles
            /\ RatMul(v.cid_shuffled, Rat(n_shuffles, 1)) = RatSum(cid_shuffled_list)
            /\ Gt0(v.cid_shuffled) => RatMul(v.cid_normalized, v.cid_shuffled) = v.cid
            /\ ~Gt0(v.cid_shuffled) => v.cid_normalized = One

\* The normal branch with two different shuffled CIDs and a ratio other than 1.
C1_Witness ==
    /\ NormReturned
    /\ n_shuffles = 2
    /\ cid_shuffled_list[1] # cid_shuffled_list[2]
    /\ Gt0(result.value.cid_shuffled)
    /\ result.value.cid_normalized # One

\* C2: every returned dict has compression_gain = 1 - cid_normalized (stated as
\* compression_gain + cid_normalized = 1), on the normal and on the fallback branch.
C2_GainIsOneMinusNormalized ==
    NormReturned =>
        RatAdd(result.value.compression_gain, result.value.cid_normalized) = One

\* The fallback branch after at least one shuffle, with a CID that is not 0.
C2_Witness ==
    /\ NormReturned
    /\ n_shuffles >= 1
    /\ ~Gt0(result.value.cid_shuffled)
    /\ Gt0(result.value.cid)

IsPermutationOf(s, t) ==
    /\ Len(s) = Len(t)
    /\ \A b \in {s[i] : i \in 1..Len(s)} \cup {t[i] : i \in 1..Len(t)} :
        Count(b, s) = Count(b, t)

\* C5: every sequence the loop hands to compute_cid (the one the tool then reads) has
\* the length and the byte counts of the original bytes, and data_bytes stays the bytes
\* of the caller's data.
C5_ShuffleIsPermutation ==
    Len(cid_shuffled_list) >= 1 =>
        /\ toolRun.input = shuffled
        /\ IsPermutationOf(shuffled, ToDataBytes(data))
        /\ data_bytes = ToDataBytes(data)

\* A second shuffle of bytes with two values that changed their order.
C5_Witness ==
    /\ Len(cid_shuffled_list) = 2
    /\ shuffled # data_bytes
    /\ Cardinality({data_bytes[i] : i \in 1..Len(data_bytes)}) >= 2

\* ------------------------------------------------------------- claims: the CID of empty input
\* C8: for empty bytes or str data the call ends in EmptyInputError, never in a value.
C8_EmptyInputError ==
    (pc = "done" /\ data.kind \in {"bytes", "str"} /\ data.val = <<>>) =>
        result.kind = "error" /\ result.error = "EmptyInputError"

\* ------------------------------------------------------------- claims: factorization
RECURSIVE CopyFrom(_, _, _)
\* Resolve a copy against the output emitted so far, one symbol at a time (-1
\* where the source lies outside it).
CopyFrom(out, offset, n) ==
    IF n = 0 THEN out
    ELSE LET k == Len(out) - offset + 1
         IN  CopyFrom(Append(out, IF k \in 1..Len(out) THEN out[k] ELSE -1), offset, n - 1)

RECURSIVE Replay(_, _)
Replay(fs, out) ==
    IF fs = <<>> THEN out
    ELSE Replay(Tail(fs),
                IF Head(fs).type = "literal" THEN Append(out, Head(fs).sym)
                ELSE CopyFrom(out, Head(fs).offset, Head(fs).length))

RECURSIVE SumLengths(_)
SumLengths(fs) == IF fs = <<>> THEN 0 ELSE Head(fs).length + SumLengths(Tail(fs))

CopyFactors(fs) == {fs[i] : i \in {k \in 1..Len(fs) : fs[k].type = "copy"}}

\* C9: replaying the factors of whatever the tool read gives back that sequence, and
\* the factor lengths sum to its length.
C9_RoundTrip ==
    toolRun.read =>
        /\ Replay(toolRun.factors, <<>>) = toolRun.input
        /\ SumLengths(toolRun.factors) = Len(toolRun.input)

\* A parse with a literal after a copy: both kinds of factor are replayed.
C9_Witness ==
    /\ toolRun.read
    /\ \E i \in 1..Len(toolRun.factors) :
        /\ toolRun.factors[i].type = "copy"
        /\ i < Len(toolRun.factors)

\* C10 as stated: every copy factor has offset >= 1, length >= 1 and its source ends
\* at or before the position it is emitted at.
C10_CopySourcePrecedes ==
    \A f \in CopyFactors(toolRun.factors) :
        f.offset >= 1 /\ f.length >= 1 /\ f.pos - f.offset + f.length <= f.pos

\* C10 amended: every copy factor has offset >= 1, length >= 1 and its source starts
\* inside the prefix already parsed (0 <= pos - offset); it may run past pos.
C10_CopySourceStartsBefore ==
    \A f \in CopyFactors(toolRun.factors) :
        f.offset >= 1 /\ f.length >= 1 /\ f.pos - f.offset >= 0

\* A run of one symbol: a copy at offset 1 longer than its offset.
C10_Witness ==
    \E f \in CopyFactors(toolRun.factors) : f.offset = 1 /\ f.length > f.offset

\* ------------------------------------------------------------- claims: binning
BinDone == binPc = "done"

\* bin_particles_3d has returned its string.
BinReturned == BinDone /\ binResult.kind = "ok"

\* C3: for nbins a power of two the returned string has exactly nbins^3 characters,
\* one per voxel, whatever the counts.
C3_LengthIsNbinsCubed ==
    (BinReturned /\ IsPowerOfTwo(nbins)) => Len(binResult.binned) = nbins ^ N

\* C4 as stated: for nbins not a power of two the call fails with ConfigError.
C4_FailsWithConfigError ==
    (BinDone /\ ~IsPowerOfTwo(nbins)) =>
        binResult.kind = "error" /\ binResult.error = "ConfigError"

\* C4 amended: for nbins not a power of two the call raises IndexError (a curve
\* coordinate >= nbins indexes the histogram) and returns no string.
C4_NonPowerOfTwoRaises ==
    (BinDone /\ ~IsPowerOfTwo(nbins)) =>
        /\ binResult.kind = "error"
        /\ binResult.error = "IndexError"
        /\ binResult.binned = None

\* nbins = 3 with particles to bin.
C4_Witness == BinDone /\ nbins = 3 /\ NumParticles >= 1 /\ binResult.kind = "error"

CellAt(k, nb) == <<k \div (nb * nb), (k \div nb) % nb, k % nb>>

RECURSIVE HistoSum(_, _, _, _)
\* The sum of the cells numbered lo..hi of histo, by halves.
HistoSum(histo, nb, lo, hi) ==
    IF lo > hi THEN 0
    ELSE IF lo = hi THEN histo[CellAt(lo, nb)]
    ELSE LET mid == (lo + hi) \div 2
         IN  HistoSum(histo, nb, lo, mid) + HistoSum(histo, nb, mid + 1, hi)

\* histo.sum(): the number of rows the histogram counted.
HistoTotal == HistoSum(binResult.histo, nbins, 0, nbins ^ N - 1)

InHalfOpenBox(row) == \A a \in 1..N : 0 <= Coords(row)[a] /\ Coords(row)[a] < box_size

InClosedBox(row) == \A a \in 1..N : 0 <= Coords(row)[a] /\ Coords(row)[a] <= box_size

\* C7 as stated: the counts sum to the number of rows with every coordinate in
\* [0, box_size).
C7_CountsHalfOpenBox ==
    BinDone => HistoTotal = BagSum(particles, {r \in Rows : InHalfOpenBox(r)})

\* C7 amended: the counts sum to the number of rows with every coordinate in
\* [0, box_size], the upper edge included; the other rows are left out without error.
C7_CountsClosedBox ==
    BinDone => HistoTotal = BagSum(particles, {r \in Rows : InClosedBox(r)})

\* A row on the upper edge, a row outside, and a row strictly inside, binned together.
C7_Witness ==
    /\ BinDone
    /\ \E r \in Rows : particles[r] > 0 /\ InClosedBox(r) /\ ~InHalfOpenBox(r)
    /\ \E r \in Rows : particles[r] > 0 /\ ~InClosedBox(r)
    /\ \E r \in Rows : particles[r] > 0 /\ InHalfOpenBox(r)


\* ------------------------------------------------------------- claims: temporary files
\* The temporary files on a disk: the names NamedTemporaryFile hands out.
TmpFilesOn(dk) == {p \in DOMAIN dk : Len(p) = 2 /\ p[1] = 0}

\* compute_cid has returned or raised, called directly or by compute_normalized_cid.
ComputeCidEnded == pc \in {"shuffle", "done"}

\* C11: after compute_cid returns or raises, no temporary file of the call is left
\* on disk, on the data branch and on the file-path branch alike, and the caller's
\* file is still there with its content.
C11_NoTempFileRemains ==
    ComputeCidEnded =>
        /\ TmpFilesOn(disk) = {}
        /\ UserFile \in DOMAIN disk
        /\ disk[UserFile] = InitDisk[UserFile]

\* The two halves of C11 apart: the data branch (tmp_path set) removes its file
\* and no branch removes the caller's file; the file-path branch (tmp_path None)
\* leaves the file of its NamedTemporaryFile(delete=False) behind.
C11_DataBranchCleansUp ==
    ComputeCidEnded =>
        /\ UserFile \in DOMAIN disk /\ disk[UserFile] = InitDisk[UserFile]
        /\ (result.op = "compute_cid" /\ IsFilePath(data, InitDisk))
              <=> TmpFilesOn(disk) # {}


\* ------------------------------------------------------------- claims: few shuffles
\* C12: with n_shuffles = 0, compute_normalized_cid runs the tool exactly once (on
\* the original; no sequence is shuffled), the mean of the empty list is not > 0,
\* and the dict has cid_normalized = 1, compression_gain = 0 and
\* cid_shuffled_std = 0 whatever the cid; with n_shuffles = 1 it has
\* cid_shuffled_std = 0 too.
C12_ZeroShufflesFallback ==
    /\ (pc = "done" /\ result.op = "compute_normalized_cid" /\ n_shuffles = 0) =>
          /\ evaluations = 1
          /\ shuffled = None
          /\ cid_shuffled_list = <<>>
    /\ (NormReturned /\ n_shuffles = 0) =>
          /\ toolRun.input = data_bytes
          /\ result.value.cid = cid_orig
          /\ ~Gt0(result.value.cid_shuffled)
          /\ result.value.cid_normalized = One
          /\ result.value.compression_gain = Zero
          /\ result.value.cid_shuffled_std = Sqrt(Zero)
    /\ (NormReturned /\ n_shuffles = 1) =>
          /\ evaluations = 2
          /\ result.value.cid_shuffled_std = Sqrt(Zero)

\* A call with no shuffles that returned, for an original whose CID is not 0.
C12_Witness ==
    /\ NormReturned
    /\ n_shuffles = 0
    /\ evaluations = 1
    /\ Gt0(result.value.cid)
    /\ result.value.cid_normalized = One

====
